---- MODULE Spec2Model ----
(***************************************************************************)
(* Model of the cheat-sheet layout core: content-to-dimension estimation,  *)
(* the greedy packer of render / calculate_layout, the page-space <->      *)
(* display-space mapping, and render_with_layout.                          *)
(*                                                                         *)
(* Lengths in page space are integers in units of 0.1 mm (every length     *)
(* constant of the renderer is a multiple of 0.1 mm).  Lengths in display  *)
(* space are integers in units of 1/DisplayDen pixel, DisplayDen chosen so *)
(* that both scale factors 1123/page_width and 794/page_height are exact.  *)
(* A text is a sequence of words, a word is its kind and its rendered      *)
(* width; words are joined by one space.                                   *)
(***************************************************************************)
EXTENDS Integers, Sequences, FiniteSets, TLC

\* ------------------------------------------------------------------ bounds
MaxBoxes == 3
MaxIdLen == 3
MaxLines == 4
MaxWords == 4

\* --------------------------------------------------------------- constants
mm == 10
EDITOR_PAGE_WIDTH == 1123
EDITOR_PAGE_HEIGHT == 794
SpaceWidth == 4

page_width == 297 * mm
page_height == 210 * mm
margin == 4 * mm
column_gap == 2 * mm
box_padding == 1 * mm
header_height == 3 * mm
line_height == (16 * mm) \div 10
blank_height == (8 * mm) \div 10

page_top == page_height - margin
page_bottom == margin
page_right == page_width - margin

\* ----------------------------------------------------------------- helpers
Min(a, b) == IF a < b THEN a ELSE b
Max(a, b) == IF a > b THEN a ELSE b

RECURSIVE GCD(_, _)
GCD(a, b) == IF b = 0 THEN a ELSE GCD(b, a % b)

\* Display-space lengths are multiples of 1/DisplayDen pixel.
DisplayDen == (page_width * page_height) \div GCD(page_width, page_height)

\* a / b rounded to the nearest integer (b > 0)
RoundDiv(a, b) == (a + b \div 2) \div b

Rep(x, n) == [i \in 1..n |-> x]

\* ------------------------------------------------------------------- texts
Word(k, w) == [k |-> k, w |-> w]
Line(ws, words) == [ws |-> ws, words |-> words]

RECURSIVE SumW(_)
SumW(words) == IF words = <<>> THEN 0 ELSE Head(words).w + SumW(Tail(words))

\* canvas.stringWidth of the words joined by single spaces
stringWidth(words) ==
    IF words = <<>> THEN 0 ELSE SumW(words) + SpaceWidth * (Len(words) - 1)

IsFence(line) == line.words # <<>> /\ line.words[1].k = "fence"
IsBlank(line) == line.words = <<>>
IsBullet(line) == line.words # <<>> /\ line.words[1].k = "bullet"
IsNumbered(line) == line.words # <<>> /\ line.words[1].k = "number"

Indent(line) == Min(line.ws * 1 * mm, 8 * mm)

\* _wrap_text: greedy word wrapping; the result is the list of output lines,
\* each a list of words.
RECURSIVE WrapFrom(_, _, _, _)
WrapFrom(words, current_line, lines, max_width) ==
    IF words = <<>>
    THEN IF current_line # <<>> THEN Append(lines, current_line) ELSE lines
    ELSE LET word == Head(words)
             test_line == Append(current_line, word)
         IN  IF stringWidth(test_line) <= max_width
             THEN WrapFrom(Tail(words), test_line, lines, max_width)
             ELSE WrapFrom(Tail(words), <<word>>,
                           IF current_line # <<>>
                           THEN Append(lines, current_line) ELSE lines,
                           max_width)

wrap_text(words, max_width) ==
    LET lines == WrapFrom(words, <<>>, <<>>, max_width)
    IN  IF lines # <<>> THEN lines ELSE << <<>> >>

\* mutant: a blank line counts as a full line
LineHeightBlankFull(line, available_width) ==
    IF IsFence(line) THEN 0
    ELSE IF IsBlank(line) THEN line_height
    ELSE LET prefix_width == IF IsBullet(line) THEN 3 * mm
                             ELSE IF IsNumbered(line) THEN 4 * mm ELSE 0
             text_width == available_width - box_padding * 2
                           - Indent(line) - prefix_width
         IN  Len(wrap_text(line.words, text_width)) * line_height

\* height one content line adds in _estimate_content_height
LineHeight(line, available_width) ==
    IF IsFence(line) THEN 0
    ELSE IF IsBlank(line) THEN blank_height
    ELSE LET prefix_width == IF IsBullet(line) THEN 3 * mm
                             ELSE IF IsNumbered(line) THEN 4 * mm ELSE 0
             text_width == available_width - box_padding * 2
                           - Indent(line) - prefix_width
         IN  Len(wrap_text(line.words, text_width)) * line_height

\* the sum of LineHeight over content[lo..hi] (the loop's accumulation of
\* total_height, split in halves to keep the evaluation shallow)
RECURSIVE HeightOfLines(_, _, _, _)
HeightOfLines(content, lo, hi, available_width) ==
    IF lo > hi THEN 0
    ELSE IF lo = hi THEN LineHeight(content[lo], available_width)
    ELSE LET mid == (lo + hi) \div 2
         IN  HeightOfLines(content, lo, mid, available_width)
             + HeightOfLines(content, mid + 1, hi, available_width)

estimate_content_height(content, available_width) ==
    HeightOfLines(content, 1, Len(content), available_width)

estimate_box_height(box, width) ==
    header_height + estimate_content_height(box.content, width) + box_padding * 2

\* mutant: a code fence line is measured like a line of text
LineWidthFenceMeasured(line) ==
    IF IsBlank(line) THEN 0
    ELSE LET marked == IsBullet(line) \/ IsNumbered(line)
             prefix_width == IF IsBullet(line) THEN 2 * mm
                             ELSE IF IsNumbered(line) THEN (25 * mm) \div 10 ELSE 0
             clean == IF marked THEN Tail(line.words) ELSE line.words
         IN  Indent(line) + prefix_width + stringWidth(clean) + box_padding * 2

\* width one content line needs in _calculate_box_width
LineWidth(line) ==
    IF IsFence(line) \/ IsBlank(line) THEN 0
    ELSE LET marked == IsBullet(line) \/ IsNumbered(line)
             prefix_width == IF IsBullet(line) THEN 2 * mm
                             ELSE IF IsNumbered(line) THEN (25 * mm) \div 10 ELSE 0
             clean == IF marked THEN Tail(line.words) ELSE line.words
         IN  Indent(line) + prefix_width + stringWidth(clean) + box_padding * 2

\* the maximum of LineWidth over content[lo..hi]
RECURSIVE MaxLineWidth(_, _, _)
MaxLineWidth(content, lo, hi) ==
    IF lo > hi THEN 0
    ELSE IF lo = hi THEN LineWidth(content[lo])
    ELSE LET mid == (lo + hi) \div 2
         IN  Max(MaxLineWidth(content, lo, mid), MaxLineWidth(content, mid + 1, hi))

calculate_box_width(box) ==
    LET title_width == box.title + 3 * mm
        max_width == Max(title_width, MaxLineWidth(box.content, 1, Len(box.content)))
        min_width == 25 * mm
        max_allowed == (page_width - 2 * margin) \div 2
    IN  Max(min_width, Min(max_width + 2 * mm, max_allowed))

\* ------------------------------------------------------------------- boxes
\* Box ids are strings, held as sequences of character codes.
Chr_A == 65
Chr_Z == 90

\* mutant: the category is the first character of the id, whatever it is
categoryFirstChar(id) == id[1]

\* Box.category
category(id) == IF id # <<>> /\ id[1] >= Chr_A /\ id[1] <= Chr_Z THEN id[1] ELSE Chr_A

RECURSIVE StrLess(_, _)
StrLess(s, t) ==
    IF t = <<>> THEN FALSE
    ELSE IF s = <<>> THEN TRUE
    ELSE IF Head(s) # Head(t) THEN Head(s) < Head(t)
    ELSE StrLess(Tail(s), Tail(t))

Text(w) == Word("text", w)
Bullet == Word("bullet", 6)
Number == Word("number", 10)

\* The boxes a request may carry (what parse_ai_output returned).  Content
\* is stripped by the parser, so it neither starts nor ends with a blank
\* line, and "" is the single blank line that "".split("\n") yields.
RequestPool == <<
    \* B1: one short plain line
    [id |-> <<66, 49>>, title |-> 120,
     content |-> << Line(0, <<Text(80), Text(60)>>) >>],
    \* A2: wide and tall (more than half the usable page in both directions)
    [id |-> <<65, 50>>, title |-> 200,
     content |-> Rep(Line(0, <<Bullet, Text(900), Text(700)>>), 33)],
    \* A10: narrow, taller than the usable page height
    [id |-> <<65, 49, 48>>, title |-> 100,
     content |-> << Line(0, <<Number, Text(90)>>) >>
                 \o Rep(Line(2, <<Number, Text(90)>>), 123)],
    \* c3: empty content, id outside [A-Z][0-9]+
    [id |-> <<99, 51>>, title |-> 150,
     content |-> << Line(0, <<>>) >>],
    \* B2: medium width, medium height, with a blank line and a code block
    [id |-> <<66, 50>>, title |-> 700,
     content |-> << Line(0, <<Text(300), Text(200)>>), Line(0, <<>>),
                    Line(0, <<Word("fence", 15)>>) >>
                 \o Rep(Line(4, <<Text(250)>>), 40)
                 \o << Line(0, <<Word("fence", 15)>>) >>],
    \* A1: narrow, about half the usable page height
    [id |-> <<65, 49>>, title |-> 90,
     content |-> Rep(Line(0, <<Bullet, Text(100)>>), 62)]
>>

RequestIds == DOMAIN RequestPool

\* Twenty boxes A1..A4, B1..B4, .., E1..E4 (already in category-then-id
\* order) of n equal content lines each, every line wider than half the
\* usable page, so that _calculate_box_width clamps to max_allowed.
HalfWidthBoxes(n) ==
    [i \in 1..20 |->
        [id |-> <<Chr_A + ((i - 1) \div 4), 49 + ((i - 1) % 4)>>, title |-> 200,
         content |-> Rep(Line(0, <<Text(900), Text(700)>>), n)]]

\* D1 and D2: two low boxes that their titles make 126 mm and 127 mm wide
\* (D2 under D1 reaches into the column_gap left of a box placed beside D1)
GapBoxes == <<
    [id |-> <<68, 49>>, title |-> 1210,
     content |-> << Line(0, <<Text(80)>>) >>],
    [id |-> <<68, 50>>, title |-> 1220,
     content |-> << Line(0, <<Text(80)>>) >>]
>>

\* every box the model knows: the request boxes, then two lists of twenty
\* half-page-wide boxes (nine rows of them fit a page, or two rows), then
\* D1 and D2, then a box whose id another box has too
Pool == RequestPool \o HalfWidthBoxes(5) \o HalfWidthBoxes(20) \o GapBoxes
        \o << [id |-> <<66, 49>>, title |-> 300,
               content |-> << Line(0, <<Text(200)>>),
                              Line(0, <<Bullet, Text(100)>>) >>] >>

\* the request boxes and a second, different box with the id B1
TieIds == RequestIds \cup {Len(Pool)}

\* the request boxes, D1 and D2
GapIds == RequestIds \cup {Len(Pool) - 2, Len(Pool) - 1}

\* the handles of the k-th list of twenty half-page-wide boxes (k = 0, 1)
TwentyBoxes(k) == [i \in 1..20 |-> Len(RequestPool) + 20 * k + i]

PoolIds == DOMAIN Pool

\* (width, height) of every pool box, as the packer loops compute them
\* (a sequence indexed by pool handle)
Sized == [b \in PoolIds |->
            LET box_width == calculate_box_width(Pool[b])
            IN  [w |-> box_width, h |-> estimate_box_height(Pool[b], box_width)]]
         \o <<>>

\* sorted(boxes, key=lambda b: (b.category, b.id)): stable, ascending
KeyLess(a, b) ==
    \/ category(Pool[a].id) < category(Pool[b].id)
    \/ /\ category(Pool[a].id) = category(Pool[b].id)
       /\ StrLess(Pool[a].id, Pool[b].id)

\* mutant: a box goes before the boxes of equal key
RECURSIVE InsertSortedBeforeEqual(_, _)
InsertSortedBeforeEqual(b, sorted) ==
    IF sorted = <<>> THEN <<b>>
    ELSE IF ~ KeyLess(Head(sorted), b) THEN <<b>> \o sorted
    ELSE <<Head(sorted)>> \o InsertSortedBeforeEqual(b, Tail(sorted))

RECURSIVE InsertSorted(_, _)
InsertSorted(b, sorted) ==
    IF sorted = <<>> THEN <<b>>
    ELSE IF KeyLess(b, Head(sorted)) THEN <<b>> \o sorted
    ELSE <<Head(sorted)>> \o InsertSorted(b, Tail(sorted))

RECURSIVE SortBoxes(_)
SortBoxes(bs) ==
    IF bs = <<>> THEN <<>>
    ELSE InsertSorted(bs[Len(bs)], SortBoxes(SubSeq(bs, 1, Len(bs) - 1)))

\* sorted(set(values)) as an ascending sequence
RECURSIVE SortedAsc(_)
SortedAsc(S) ==
    IF S = {} THEN <<>>
    ELSE LET m == CHOOSE v \in S : \A u \in S : v <= u
         IN  <<m>> \o SortedAsc(S \ {m})

RECURSIVE Reverse(_)
Reverse(s) == IF s = <<>> THEN <<>> ELSE Append(Reverse(Tail(s)), Head(s))

None == <<>>

SeqMax(S) == CHOOSE v \in S : \A u \in S : u <= v

\* ------------------------------------------------------------------- state
VARIABLES
    boxes,              \* the parsed box list of the requests (pool handles)
    sort_by_category,   \* the flag render / calculate_layout are called with
    \* calculate_layout
    cl_pc,              \* "idle", "loop", "done"
    cl_boxes,           \* its local (sorted) box list
    cl_i,               \* number of boxes its loop has handled
    placed,             \* placed boxes of the current page
    current_page,
    layout_result,
    \* render
    r_pc,               \* "idle", "loop", "done"
    r_boxes,
    r_i,
    r_placed,
    r_page,             \* number of showPage() calls so far
    r_drawn,            \* the _draw_box calls made, in order
    \* render_with_layout
    rwl_pc,             \* "idle", "done"
    rwl_layout,         \* the layout array of the request
    rwl_drawn,          \* the _draw_box calls made, in order
    \* /estimate-height
    eh,                 \* None, or the last request and its response
    \* a second /calculate-layout request, on a renderer of its own
    boxes2,             \* its parsed box list (<<>>: there is no such request)
    cl2_pc,             \* "idle", "loop", "done"
    cl2_boxes,
    cl2_i,
    placed2,
    current_page2,
    layout_result2,
    \* the entry points
    ai_output,          \* the request's text: "" or text that parsed to boxes
    response,           \* entry point -> None, or the error it answered with
    \* one call of a text function on a box
    t_box,              \* the box (None: no call)
    t_width,            \* the width the call is given
    t_out               \* None, or what the call returned

cl_vars == <<cl_pc, cl_boxes, cl_i, placed, current_page, layout_result>>
r_vars == <<r_pc, r_boxes, r_i, r_placed, r_page, r_drawn>>
rwl_vars == <<rwl_pc, rwl_layout, rwl_drawn>>
cl2_vars == <<boxes2, cl2_pc, cl2_boxes, cl2_i, placed2, current_page2,
              layout_result2>>
ep_vars == <<ai_output, response>>
t_vars == <<t_box, t_width, t_out>>

\* ---------------------------------------------- calculate_layout's packer
\* mutant: the last test forgets the placed box's height
LayoutOverlapsTopEdge(x, y, box_w, box_h, pl) ==
    \E i \in DOMAIN pl :
        ~ (\/ x + box_w + column_gap <= pl[i].x
           \/ x >= pl[i].x + pl[i].w + column_gap
           \/ y - box_h >= pl[i].y
           \/ y <= pl[i].y)

\* the overlap test of find_best_position against every placed box
LayoutOverlaps(x, y, box_w, box_h, pl) ==
    \E i \in DOMAIN pl :
        ~ (\/ x + box_w + column_gap <= pl[i].x
           \/ x >= pl[i].x + pl[i].w + column_gap
           \/ y - box_h >= pl[i].y
           \/ y <= pl[i].y - pl[i].h)

\* mutant: among equal y the larger x replaces the best
RECURSIVE LayoutXLoopRightmost(_, _, _, _, _, _)
LayoutXLoopRightmost(xs, y, box_w, box_h, pl, best) ==
    IF xs = <<>> THEN best
    ELSE LET x == Head(xs)
             next == IF x + box_w > page_right THEN best
                     ELSE IF LayoutOverlaps(x, y, box_w, box_h, pl) THEN best
                     ELSE IF best = None \/ y > best[2]
                             \/ (y = best[2] /\ x > best[1])
                          THEN <<x, y>> ELSE best
         IN  LayoutXLoopRightmost(Tail(xs), y, box_w, box_h, pl, next)

\* the loop over x_positions at one y level; best is None or <<x, y>>
RECURSIVE LayoutXLoop(_, _, _, _, _, _)
LayoutXLoop(xs, y, box_w, box_h, pl, best) ==
    IF xs = <<>> THEN best
    ELSE LET x == Head(xs)
             next == IF x + box_w > page_right THEN best
                     ELSE IF LayoutOverlaps(x, y, box_w, box_h, pl) THEN best
                     ELSE IF best = None \/ y > best[2]
                             \/ (y = best[2] /\ x < best[1])
                          THEN <<x, y>> ELSE best
         IN  LayoutXLoop(Tail(xs), y, box_w, box_h, pl, next)

\* the loop over y_levels, topmost first
RECURSIVE LayoutYLoop(_, _, _, _)
LayoutYLoop(ys, box_w, box_h, pl) ==
    IF ys = <<>> THEN None
    ELSE LET y == Head(ys)
         IN  IF y - box_h < page_bottom
             THEN LayoutYLoop(Tail(ys), box_w, box_h, pl)
             ELSE LET x_positions ==
                          SortedAsc({margin} \cup
                              {pl[i].x + pl[i].w + column_gap : i \in DOMAIN pl})
                      best == LayoutXLoop(x_positions, y, box_w, box_h, pl, None)
                  IN  IF best # None THEN best
                      ELSE LayoutYLoop(Tail(ys), box_w, box_h, pl)

LayoutFindBestPosition(box_w, box_h, pl) ==
    LET y_levels == Reverse(SortedAsc({page_top} \cup
                        {pl[i].y - pl[i].h : i \in DOMAIN pl}))
    IN  LayoutYLoop(y_levels, box_w, box_h, pl)

\* page space -> display (editor) space, in 1/DisplayDen pixels
ToEditorX(x) == x * EDITOR_PAGE_WIDTH * (DisplayDen \div page_width)
\* mutant: the page offset is left out
ToEditorYNoOffset(y, page) ==
    (page_height - y) * EDITOR_PAGE_HEIGHT * (DisplayDen \div page_height)

ToEditorY(y, page) ==
    (page_height - y) * EDITOR_PAGE_HEIGHT * (DisplayDen \div page_height)
    + page * EDITOR_PAGE_HEIGHT * DisplayDen
ToEditorH(h) == h * EDITOR_PAGE_HEIGHT * (DisplayDen \div page_height)

CalculateLayoutStart ==
    /\ cl_pc = "idle"
    /\ cl_pc' = "loop"
    /\ cl_boxes' = IF sort_by_category THEN SortBoxes(boxes) ELSE boxes
    /\ cl_i' = 0
    /\ placed' = <<>>
    /\ layout_result' = <<>>
    /\ current_page' = 0
    /\ UNCHANGED <<boxes, sort_by_category, r_vars, rwl_vars, eh, cl2_vars, ep_vars, t_vars>>

\* mutant: a new page keeps the placed boxes of the page before
CalculateLayoutStepKeepPlaced ==
    /\ cl_pc = "loop"
    /\ cl_i < Len(cl_boxes)
    /\ LET b == cl_boxes[cl_i + 1]
           box_width == Sized[b].w
           box_height == Sized[b].h
           best == LayoutFindBestPosition(box_width, box_height, placed)
           page == IF best = None THEN current_page + 1 ELSE current_page
           x == IF best = None THEN margin ELSE best[1]
           y == IF best = None THEN page_top ELSE best[2]
           entry == [x |-> x, y |-> y, w |-> box_width, h |-> box_height,
                     id |-> Pool[b].id]
       IN  /\ current_page' = page
           /\ placed' = Append(placed, entry)
           /\ layout_result' = Append(layout_result,
                  [id |-> Pool[b].id,
                   x |-> ToEditorX(x),
                   y |-> ToEditorY(y, page),
                   width |-> ToEditorX(box_width),
                   height |-> ToEditorH(box_height),
                   page |-> page])
    /\ cl_i' = cl_i + 1
    /\ UNCHANGED <<boxes, sort_by_category, cl_pc, cl_boxes, r_vars, rwl_vars, eh, cl2_vars, ep_vars, t_vars>>

\* one iteration of "for box in boxes"
CalculateLayoutStep ==
    /\ cl_pc = "loop"
    /\ cl_i < Len(cl_boxes)
    /\ LET b == cl_boxes[cl_i + 1]
           box_width == Sized[b].w
           box_height == Sized[b].h
           best == LayoutFindBestPosition(box_width, box_height, placed)
           page == IF best = None THEN current_page + 1 ELSE current_page
           x == IF best = None THEN margin ELSE best[1]
           y == IF best = None THEN page_top ELSE best[2]
           entry == [x |-> x, y |-> y, w |-> box_width, h |-> box_height,
                     id |-> Pool[b].id]
       IN  /\ current_page' = page
           /\ placed' = IF best = None THEN <<entry>> ELSE Append(placed, entry)
           /\ layout_result' = Append(layout_result,
                  [id |-> Pool[b].id,
                   x |-> ToEditorX(x),
                   y |-> ToEditorY(y, page),
                   width |-> ToEditorX(box_width),
                   height |-> ToEditorH(box_height),
                   page |-> page])
    /\ cl_i' = cl_i + 1
    /\ UNCHANGED <<boxes, sort_by_category, cl_pc, cl_boxes, r_vars, rwl_vars, eh, cl2_vars, ep_vars, t_vars>>

CalculateLayoutReturn ==
    /\ cl_pc = "loop"
    /\ cl_i = Len(cl_boxes)
    /\ cl_pc' = "done"
    /\ UNCHANGED <<boxes, sort_by_category, cl_boxes, cl_i, placed,
                   current_page, layout_result, r_vars, rwl_vars, eh, cl2_vars, ep_vars, t_vars>>

\* ------------------------------------------------------------------ render
\* _draw_box: the rectangle drawn is (x, y - height, width, height), with the
\* height estimated from the content at the given width.
\* (Sized[b].h is estimate_box_height(Pool[b], Sized[b].w), looked up instead
\* of evaluated again)
DrawBox(b, page, x, y, width) ==
    [id |-> Pool[b].id, page |-> page, x |-> x, y |-> y, width |-> width,
     height |-> IF width = Sized[b].w THEN Sized[b].h
                ELSE estimate_box_height(Pool[b], width)]

\* mutant: the first test forgets column_gap
RenderOverlapsNoGap(x, y, box_w, box_h, pl) ==
    \E i \in DOMAIN pl :
        ~ (\/ x + box_w <= pl[i][1]
           \/ x >= pl[i][1] + pl[i][3] + column_gap
           \/ y - box_h >= pl[i][2]
           \/ y <= pl[i][2] - pl[i][4])

RenderOverlaps(x, y, box_w, box_h, pl) ==
    \E i \in DOMAIN pl :
        ~ (\/ x + box_w + column_gap <= pl[i][1]
           \/ x >= pl[i][1] + pl[i][3] + column_gap
           \/ y - box_h >= pl[i][2]
           \/ y <= pl[i][2] - pl[i][4])

\* mutant: the right limit is the page edge, not the right margin
RECURSIVE RenderXLoopPageEdge(_, _, _, _, _, _)
RenderXLoopPageEdge(xs, y, box_w, box_h, pl, best) ==
    IF xs = <<>> THEN best
    ELSE LET x == Head(xs)
             next == IF x + box_w > page_width THEN best
                     ELSE IF RenderOverlaps(x, y, box_w, box_h, pl) THEN best
                     ELSE IF best = None \/ y > best[2]
                             \/ (y = best[2] /\ x < best[1])
                          THEN <<x, y>> ELSE best
         IN  RenderXLoopPageEdge(Tail(xs), y, box_w, box_h, pl, next)

RECURSIVE RenderXLoop(_, _, _, _, _, _)
RenderXLoop(xs, y, box_w, box_h, pl, best) ==
    IF xs = <<>> THEN best
    ELSE LET x == Head(xs)
             next == IF x + box_w > page_right THEN best
                     ELSE IF RenderOverlaps(x, y, box_w, box_h, pl) THEN best
                     ELSE IF best = None \/ y > best[2]
                             \/ (y = best[2] /\ x < best[1])
                          THEN <<x, y>> ELSE best
         IN  RenderXLoop(Tail(xs), y, box_w, box_h, pl, next)

RECURSIVE RenderYLoop(_, _, _, _)
RenderYLoop(ys, box_w, box_h, pl) ==
    IF ys = <<>> THEN None
    ELSE LET y == Head(ys)
         IN  IF y - box_h < page_bottom
             THEN RenderYLoop(Tail(ys), box_w, box_h, pl)
             ELSE LET x_positions ==
                          SortedAsc({margin} \cup
                              {pl[i][1] + pl[i][3] + column_gap : i \in DOMAIN pl})
                      best == RenderXLoop(x_positions, y, box_w, box_h, pl, None)
                  IN  IF best # None THEN best
                      ELSE RenderYLoop(Tail(ys), box_w, box_h, pl)

RenderFindBestPosition(box_w, box_h, pl) ==
    LET y_levels == Reverse(SortedAsc({page_top} \cup
                        {pl[i][2] - pl[i][4] : i \in DOMAIN pl}))
    IN  RenderYLoop(y_levels, box_w, box_h, pl)

RenderStart ==
    /\ r_pc = "idle"
    /\ r_pc' = "loop"
    /\ r_boxes' = IF sort_by_category THEN SortBoxes(boxes) ELSE boxes
    /\ r_i' = 0
    /\ r_placed' = <<>>
    /\ r_page' = 0
    /\ r_drawn' = <<>>
    /\ UNCHANGED <<boxes, sort_by_category, cl_vars, rwl_vars, eh, cl2_vars, ep_vars, t_vars>>

\* one iteration of "for box in boxes"
RenderStep ==
    /\ r_pc = "loop"
    /\ r_i < Len(r_boxes)
    /\ LET b == r_boxes[r_i + 1]
           box_width == Sized[b].w
           box_height == Sized[b].h
           best == RenderFindBestPosition(box_width, box_height, r_placed)
           page == IF best = None THEN r_page + 1 ELSE r_page
           x == IF best = None THEN margin ELSE best[1]
           y == IF best = None THEN page_top ELSE best[2]
       IN  /\ r_page' = page
           /\ r_drawn' = Append(r_drawn, DrawBox(b, page, x, y, box_width))
           /\ r_placed' = Append(IF best = None THEN <<>> ELSE r_placed,
                                 <<x, y, box_width, box_height>>)
    /\ r_i' = r_i + 1
    /\ UNCHANGED <<boxes, sort_by_category, r_pc, r_boxes, cl_vars, rwl_vars, eh, cl2_vars, ep_vars, t_vars>>

\* c.save()
RenderSave ==
    /\ r_pc = "loop"
    /\ r_i = Len(r_boxes)
    /\ r_pc' = "done"
    /\ UNCHANGED <<boxes, sort_by_category, r_boxes, r_i, r_placed, r_page,
                   r_drawn, cl_vars, rwl_vars, eh, cl2_vars, ep_vars, t_vars>>

\* ------------------------------------------------------ render_with_layout
\* a length of n display pixels
Px(n) == n * DisplayDen

\* page_num = int(layout_info['y'] // EDITOR_PAGE_HEIGHT)
PageNum(editor_y) == editor_y \div (EDITOR_PAGE_HEIGHT * DisplayDen)

\* x = layout_info['x'] * scale_x, width = layout_info['width'] * scale_x,
\* to the nearest page-space unit
ToPdfX(editor_x) ==
    RoundDiv(editor_x, EDITOR_PAGE_WIDTH * (DisplayDen \div page_width))

\* y = page_height - (layout_info['y'] - page_num * EDITOR_PAGE_HEIGHT) * scale_y
ToPdfY(editor_y, page_num) ==
    page_height
    - RoundDiv(editor_y - page_num * EDITOR_PAGE_HEIGHT * DisplayDen,
               EDITOR_PAGE_HEIGHT * (DisplayDen \div page_height))

\* layout_lookup = {item['id']: item for item in layout}: the last entry of
\* an id wins
HasEntry(layout, id) == \E i \in DOMAIN layout : layout[i].id = id
Lookup(layout, id) ==
    layout[SeqMax({i \in DOMAIN layout : layout[i].id = id})]

\* the boxes of display page page_num, in box order, drawn at their entries
RECURSIVE DrawPage(_, _, _, _, _)
DrawPage(bs, i, layout, page_num, page) ==
    IF i > Len(bs) THEN <<>>
    ELSE LET id == Pool[bs[i]].id
             rest == DrawPage(bs, i + 1, layout, page_num, page)
         IN  IF HasEntry(layout, id) /\ PageNum(Lookup(layout, id).y) = page_num
             THEN LET layout_info == Lookup(layout, id)
                  IN  <<DrawBox(bs[i], page, ToPdfX(layout_info.x),
                                ToPdfY(layout_info.y, page_num),
                                ToPdfX(layout_info.width))>> \o rest
             ELSE rest

\* "for page_num in sorted(pages.keys())": showPage() before every page whose
\* page_num > 0; page counts the showPage() calls made so far
RECURSIVE DrawPages(_, _, _, _)
DrawPages(keys, bs, layout, page) ==
    IF keys = <<>> THEN <<>>
    ELSE LET page_num == Head(keys)
             here == IF page_num > 0 THEN page + 1 ELSE page
         IN  DrawPage(bs, 1, layout, page_num, here)
             \o DrawPages(Tail(keys), bs, layout, here)

\* what the editor may send back for a layout entry of calculate_layout
Overrides(e) ==
    { [e EXCEPT !.x = Px(-10), !.width = Px(9999)],
      [e EXCEPT !.y = e.y + Px(EDITOR_PAGE_HEIGHT)],
      [e EXCEPT !.y = Px(-5)],
      [e EXCEPT !.height = e.height + Px(50)],
      [e EXCEPT !.width = Px(60)] }

RemoveAt(s, i) == SubSeq(s, 1, i - 1) \o SubSeq(s, i + 1, Len(s))

\* the layout arrays a /generate-with-layout request may carry: the
\* calculated layout as it is, with one entry edited, or with one entry missing
Layouts(L) ==
    {L} \cup UNION {{[L EXCEPT ![i] = o] : o \in Overrides(L[i])} : i \in DOMAIN L}
        \cup {RemoveAt(L, i) : i \in DOMAIN L}

RenderWithLayout ==
    /\ rwl_pc = "idle"
    /\ cl_pc = "done"
    /\ \E layout \in Layouts(layout_result) :
          LET ids == {Pool[boxes[i]].id : i \in DOMAIN boxes}
              keys == {PageNum(Lookup(layout, id).y) :
                          id \in {d \in ids : HasEntry(layout, d)}}
          IN  /\ rwl_layout' = layout
              /\ rwl_drawn' = DrawPages(SortedAsc(keys), boxes, layout, 0)
    /\ rwl_pc' = "done"
    /\ UNCHANGED <<boxes, sort_by_category, cl_vars, r_vars, eh, cl2_vars, ep_vars, t_vars>>

\* --------------------------------------------------------- /estimate-height
\* "" is the content whose split("\n") is one empty line
IsEmptyContent(content) == content = << Line(0, <<>>) >>

\* pdf_width = width * (renderer.page_width / 1123)
EditorToPdfWidth(width) ==
    RoundDiv(width, EDITOR_PAGE_WIDTH * (DisplayDen \div page_width))

estimate_height(content, width) ==
    IF IsEmptyContent(content) THEN 0
    ELSE LET pdf_width == EditorToPdfWidth(width)
             pdf_height == estimate_content_height(content, pdf_width)
             total_pdf_height == header_height + pdf_height + box_padding * 2
         IN  total_pdf_height * EDITOR_PAGE_HEIGHT * (DisplayDen \div page_height)

\* the editor asks for the height of a box's content at the width the layout
\* gave the box, or at the default width of 100 pixels
EstimateHeight ==
    /\ cl_pc = "done"
    /\ \E i \in DOMAIN layout_result, dflt \in BOOLEAN :
          LET b == cl_boxes[i]
              width == IF dflt THEN Px(100) ELSE layout_result[i].width
          IN  eh' = [box |-> b, width |-> width,
                     estimated_height |-> estimate_height(Pool[b].content, width)]
    /\ UNCHANGED <<boxes, sort_by_category, cl_vars, r_vars, rwl_vars, cl2_vars, ep_vars, t_vars>>

\* ------------------------------------- a second /calculate-layout request
\* mutant: a box is narrowed to the room left beside the box placed before it
LayoutStepShrink(b, pl, page) ==
    LET room == IF pl = <<>> THEN page_right - margin
                ELSE page_right - (pl[Len(pl)].x + pl[Len(pl)].w + column_gap)
        box_width == Max(25 * mm, Min(Sized[b].w, room))
        box_height == Sized[b].h
        best == LayoutFindBestPosition(box_width, box_height, pl)
        new_page == IF best = None THEN page + 1 ELSE page
        x == IF best = None THEN margin ELSE best[1]
        y == IF best = None THEN page_top ELSE best[2]
        entry == [x |-> x, y |-> y, w |-> box_width, h |-> box_height,
                  id |-> Pool[b].id]
    IN  [placed |-> IF best = None THEN <<entry>> ELSE Append(pl, entry),
         current_page |-> new_page,
         entry |-> [id |-> Pool[b].id,
                    x |-> ToEditorX(x),
                    y |-> ToEditorY(y, new_page),
                    width |-> ToEditorX(box_width),
                    height |-> ToEditorH(box_height),
                    page |-> new_page]]

\* the body of "for box in boxes" of calculate_layout, on the locals (placed,
\* current_page) of the call that runs it: the locals after the iteration
\* and the entry appended to layout_result
LayoutStep(b, pl, page) ==
    LET box_width == Sized[b].w
        box_height == Sized[b].h
        best == LayoutFindBestPosition(box_width, box_height, pl)
        new_page == IF best = None THEN page + 1 ELSE page
        x == IF best = None THEN margin ELSE best[1]
        y == IF best = None THEN page_top ELSE best[2]
        entry == [x |-> x, y |-> y, w |-> box_width, h |-> box_height,
                  id |-> Pool[b].id]
    IN  [placed |-> IF best = None THEN <<entry>> ELSE Append(pl, entry),
         current_page |-> new_page,
         entry |-> [id |-> Pool[b].id,
                    x |-> ToEditorX(x),
                    y |-> ToEditorY(y, new_page),
                    width |-> ToEditorX(box_width),
                    height |-> ToEditorH(box_height),
                    page |-> new_page]]

\* mutant: the second request runs on the first request's renderer and
\* goes on from its page counter
CalculateLayoutStart2SharedRenderer ==
    /\ cl2_pc = "idle"
    /\ boxes2 # <<>>
    /\ cl2_pc' = "loop"
    /\ cl2_boxes' = IF sort_by_category THEN SortBoxes(boxes2) ELSE boxes2
    /\ cl2_i' = 0
    /\ placed2' = <<>>
    /\ layout_result2' = <<>>
    /\ current_page2' = current_page
    /\ UNCHANGED <<boxes, sort_by_category, cl_vars, r_vars, rwl_vars, eh, boxes2,
                   ep_vars, t_vars>>

CalculateLayoutStart2 ==
    /\ cl2_pc = "idle"
    /\ boxes2 # <<>>
    /\ cl2_pc' = "loop"
    /\ cl2_boxes' = IF sort_by_category THEN SortBoxes(boxes2) ELSE boxes2
    /\ cl2_i' = 0
    /\ placed2' = <<>>
    /\ layout_result2' = <<>>
    /\ current_page2' = 0
    /\ UNCHANGED <<boxes, sort_by_category, cl_vars, r_vars, rwl_vars, eh, boxes2,
                   ep_vars, t_vars>>

\* mutant: the two requests share one placed-box accumulator
CalculateLayoutStep2SharedPlaced ==
    /\ cl2_pc = "loop"
    /\ cl2_i < Len(cl2_boxes)
    /\ LET step == LayoutStep(cl2_boxes[cl2_i + 1], placed, current_page2)
       IN  /\ placed2' = step.placed
           /\ current_page2' = step.current_page
           /\ layout_result2' = Append(layout_result2, step.entry)
    /\ cl2_i' = cl2_i + 1
    /\ UNCHANGED <<boxes, sort_by_category, cl_vars, r_vars, rwl_vars, eh,
                   boxes2, cl2_pc, cl2_boxes, ep_vars, t_vars>>

CalculateLayoutStep2 ==
    /\ cl2_pc = "loop"
    /\ cl2_i < Len(cl2_boxes)
    /\ LET step == LayoutStep(cl2_boxes[cl2_i + 1], placed2, current_page2)
       IN  /\ placed2' = step.placed
           /\ current_page2' = step.current_page
           /\ layout_result2' = Append(layout_result2, step.entry)
    /\ cl2_i' = cl2_i + 1
    /\ UNCHANGED <<boxes, sort_by_category, cl_vars, r_vars, rwl_vars, eh,
                   boxes2, cl2_pc, cl2_boxes, ep_vars, t_vars>>

CalculateLayoutReturn2 ==
    /\ cl2_pc = "loop"
    /\ cl2_i = Len(cl2_boxes)
    /\ cl2_pc' = "done"
    /\ UNCHANGED <<boxes, sort_by_category, cl_vars, r_vars, rwl_vars, eh,
                   boxes2, cl2_boxes, cl2_i, placed2, current_page2,
                   layout_result2, ep_vars, t_vars>>

\* ------------------------------------------------------------ entry points
EntryPoints == {"/generate", "/calculate-layout", "/generate-with-layout",
                "generate_from_ai_output"}

\* return jsonify({'error': ...}), 400
NoAiOutput == [status |-> 400, error |-> "No AI output provided"]
NoValidBoxes == [status |-> 400, error |-> "No valid [BOX] blocks found in input"]
\* raise ValueError(...)
NoBoxesFound == [raised |-> "ValueError",
                 error |-> "No boxes found in AI output. Check the format."]

\* the entry point ends with an error; no renderer was created
Respond(ep, r) ==
    /\ response[ep] = None
    /\ response' = [response EXCEPT ![ep] = r]
    /\ UNCHANGED <<ai_output, boxes, sort_by_category, cl_vars, r_vars,
                   rwl_vars, eh, cl2_vars, t_vars>>

\* mutant: /generate does not test the parsed list
GenerateUnchecked ==
    IF ai_output = "" THEN Respond("/generate", NoAiOutput)
    ELSE RenderStart

\* /generate, up to the call of renderer.render
Generate ==
    IF ai_output = "" THEN Respond("/generate", NoAiOutput)
    ELSE IF boxes = <<>> THEN Respond("/generate", NoValidBoxes)
    ELSE RenderStart

\* generate_from_ai_output, up to the call of renderer.render
GenerateFromAiOutput ==
    IF boxes = <<>> THEN Respond("generate_from_ai_output", NoBoxesFound)
    ELSE RenderStart

\* /calculate-layout, up to the call of renderer.calculate_layout
CalculateLayout ==
    IF ai_output = "" THEN Respond("/calculate-layout", NoAiOutput)
    ELSE IF boxes = <<>> THEN Respond("/calculate-layout", NoValidBoxes)
    ELSE CalculateLayoutStart

\* /generate-with-layout
GenerateWithLayout ==
    IF ai_output = "" THEN Respond("/generate-with-layout", NoAiOutput)
    ELSE IF boxes = <<>> THEN Respond("/generate-with-layout", NoValidBoxes)
    ELSE RenderWithLayout

\* ------------------------------------------------------------------ parser
Chr_0 == 48
Chr_9 == 57
IsUpper(c) == c >= Chr_A /\ c <= Chr_Z
IsDigit(c) == c >= Chr_0 /\ c <= Chr_9

\* strict_pattern = re.compile(r'^[A-Z]\d+$')
StrictId(id) ==
    /\ Len(id) >= 2
    /\ IsUpper(id[1])
    /\ \A i \in 2..Len(id) : IsDigit(id[i])

\* characters of the ids tried: - 3 A C c (all allowed by the block pattern
\* [A-Za-z0-9\-_.]+)
IdChars == {45, 51, Chr_A, 67, 99}

\* parse_ai_output on a text holding the one block t_box, followed by the
\* derivation of the box's category (Box.category, as /calculate-layout
\* reports it): the boxes returned and the ids warned about
ParseAiOutput ==
    /\ t_box # None
    /\ t_out = None
    /\ t_out' = [boxes |-> << [id |-> t_box.id, title |-> t_box.title,
                               content |-> t_box.content,
                               category |-> category(t_box.id)] >>,
                 warnings |-> IF StrictId(t_box.id) THEN <<>> ELSE <<t_box.id>>]
    /\ UNCHANGED <<boxes, sort_by_category, cl_vars, r_vars, rwl_vars, eh,
                   cl2_vars, ep_vars, t_box, t_width>>

\* -------------------------------------------- _estimate_content_height
\* the content lines tried: "* one", "", "three", an indented numbered item
\* of two long words, and a code fence
SomeLines ==
    { Line(0, <<Bullet, Text(60)>>),
      Line(0, <<>>),
      Line(0, <<Text(90)>>),
      Line(2, <<Number, Text(200), Text(150)>>),
      Line(0, <<Word("fence", 15)>>) }

\* the widths tried: the narrowest box, and two at which the numbered item
\* wraps to two lines and to one
SomeWidths == {25 * mm, 42 * mm, 60 * mm}

\* one iteration of "for line in lines"; t_out holds the locals
\* (the number of lines handled, total_height, in_code_block)
EstimateContentHeightLine ==
    /\ t_box # None
    /\ t_out # None
    /\ t_out.i < Len(t_box.content)
    /\ LET line == t_box.content[t_out.i + 1]
       IN  t_out' = [i |-> t_out.i + 1,
                     total_height |-> t_out.total_height + LineHeight(line, t_width),
                     in_code_block |-> IF IsFence(line) THEN ~ t_out.in_code_block
                                       ELSE t_out.in_code_block]
    /\ UNCHANGED <<boxes, sort_by_category, cl_vars, r_vars, rwl_vars, eh,
                   cl2_vars, ep_vars, t_box, t_width>>

\* ---------------------------------------------------- _calculate_box_width
\* the content lines tried: a short line, an indented bullet, a numbered item
\* and a plain line wider than half the usable page, a blank line, a line
\* just below that width, and a code fence with a long info string
WidthLines ==
    { Line(0, <<Text(90)>>),
      Line(2, <<Bullet, Text(200), Text(60)>>),
      Line(0, <<Number, Text(900), Text(700)>>),
      Line(0, <<>>),
      Line(0, <<Text(1410)>>),
      Line(0, <<Word("fence", 1500)>>) }

\* the widths of "id title" tried
TitleWidths == {100, 300, 1500}

\* one iteration of "for line in box.content.split('\n')"; t_out holds the
\* locals (the number of lines handled, max_width) and, once the call has
\* returned, the value returned
CalculateBoxWidthLine ==
    /\ t_box # None
    /\ t_out # None
    /\ t_out.i < Len(t_box.content)
    /\ t_out' = [t_out EXCEPT
                    !.i = t_out.i + 1,
                    !.max_width = Max(t_out.max_width,
                                      LineWidth(t_box.content[t_out.i + 1]))]
    /\ UNCHANGED <<boxes, sort_by_category, cl_vars, r_vars, rwl_vars, eh,
                   cl2_vars, ep_vars, t_box, t_width>>

\* "Clamp to reasonable bounds" and return
CalculateBoxWidthReturn ==
    /\ t_box # None
    /\ t_out # None
    /\ t_out.i = Len(t_box.content)
    /\ ~ t_out.returned
    /\ LET min_width == 25 * mm
           max_allowed == (page_width - 2 * margin) \div 2
       IN  t_out' = [t_out EXCEPT
                       !.returned = TRUE,
                       !.width = Max(min_width,
                                     Min(t_out.max_width + 2 * mm, max_allowed))]
    /\ UNCHANGED <<boxes, sort_by_category, cl_vars, r_vars, rwl_vars, eh,
                   cl2_vars, ep_vars, t_box, t_width>>

\* ------------------------------------------------------- sizing of a box
\* the content lines tried for sizing: those of WidthLines and a numbered
\* item that needs more than the narrowest box and less than the widest
SizeLines == WidthLines \cup { Line(0, <<Number, Text(300)>>) }

\* box_width = self._calculate_box_width(box)
\* box_height = self._estimate_box_height(box, box_width)
SizeBox ==
    /\ t_box # None
    /\ t_out = None
    /\ LET box_width == calculate_box_width(t_box)
       IN  /\ t_width' = box_width
           /\ t_out' = [width |-> box_width,
                        height |-> estimate_box_height(t_box, box_width)]
    /\ UNCHANGED <<boxes, sort_by_category, cl_vars, r_vars, rwl_vars, eh,
                   cl2_vars, ep_vars, t_box>>

\* -------------------------------------------------------------- _wrap_text
\* the word widths and the wrap widths tried (30 + space + 66 is exactly
\* 100; a wrap width is negative when the box is narrower than its padding,
\* indent and prefix)
WordWidths == {30, 66, 120, 250}
WrapWidths == {0 - 10, 100, 170, 260}

\* mutant: a test line as wide as max_width does not fit
WrapTextWordStrict ==
    /\ t_box # None
    /\ t_out # None
    /\ t_out.i < Len(t_box.content[1].words)
    /\ LET word == t_box.content[1].words[t_out.i + 1]
           test_line == Append(t_out.current_line, word)
       IN  IF stringWidth(test_line) < t_width
           THEN t_out' = [t_out EXCEPT !.i = t_out.i + 1,
                                       !.current_line = test_line]
           ELSE t_out' = [t_out EXCEPT
                            !.i = t_out.i + 1,
                            !.lines = IF t_out.current_line # <<>>
                                      THEN Append(t_out.lines, t_out.current_line)
                                      ELSE t_out.lines,
                            !.current_line = <<word>>]
    /\ UNCHANGED <<boxes, sort_by_category, cl_vars, r_vars, rwl_vars, eh,
                   cl2_vars, ep_vars, t_box, t_width>>

\* one iteration of "for word in words" on the text of the box's one line,
\* with max_width = t_width; t_out holds the locals (the number of words
\* handled, current_line, lines) and, once the call has returned, its result
WrapTextWord ==
    /\ t_box # None
    /\ t_out # None
    /\ t_out.i < Len(t_box.content[1].words)
    /\ LET word == t_box.content[1].words[t_out.i + 1]
           test_line == Append(t_out.current_line, word)
       IN  IF stringWidth(test_line) <= t_width
           THEN t_out' = [t_out EXCEPT !.i = t_out.i + 1,
                                       !.current_line = test_line]
           ELSE t_out' = [t_out EXCEPT
                            !.i = t_out.i + 1,
                            !.lines = IF t_out.current_line # <<>>
                                      THEN Append(t_out.lines, t_out.current_line)
                                      ELSE t_out.lines,
                            !.current_line = <<word>>]
    /\ UNCHANGED <<boxes, sort_by_category, cl_vars, r_vars, rwl_vars, eh,
                   cl2_vars, ep_vars, t_box, t_width>>

\* the end of the loop: the last line is appended, and
\* "return lines if lines else ['']"
WrapTextReturn ==
    /\ t_box # None
    /\ t_out # None
    /\ t_out.i = Len(t_box.content[1].words)
    /\ ~ t_out.returned
    /\ LET lines == IF t_out.current_line # <<>>
                    THEN Append(t_out.lines, t_out.current_line)
                    ELSE t_out.lines
       IN  t_out' = [t_out EXCEPT
                       !.lines = lines,
                       !.returned = TRUE,
                       !.result = IF lines # <<>> THEN lines ELSE << <<>> >>]
    /\ UNCHANGED <<boxes, sort_by_category, cl_vars, r_vars, rwl_vars, eh,
                   cl2_vars, ep_vars, t_box, t_width>>

\* ---------------------------------------------------------- validate_boxes
\* the boxes handed to validate_boxes (B1, A2, A1 and the second box with
\* id B1) and the ids expected (A1, B1, B3, D4)
ValidateBoxIds == {1, 2, 6, Len(Pool)}
ExpectedIds == {<<Chr_A, 49>>, <<66, 49>>, <<66, 51>>, <<68, 52>>}

\* mutant: complete compares the two sets for equality
validate_boxesCompleteEqual(bs, expected_ids) ==
    LET found_ids == {Pool[bs[i]].id : i \in DOMAIN bs}
        expected_set == {expected_ids[i] : i \in DOMAIN expected_ids}
    IN  [missing |-> expected_set \ found_ids,
         extra |-> found_ids \ expected_set,
         valid |-> found_ids \cap expected_set,
         complete |-> found_ids = expected_set]

validate_boxes(bs, expected_ids) ==
    LET found_ids == {Pool[bs[i]].id : i \in DOMAIN bs}
        expected_set == {expected_ids[i] : i \in DOMAIN expected_ids}
    IN  [missing |-> expected_set \ found_ids,
         extra |-> found_ids \ expected_set,
         valid |-> found_ids \cap expected_set,
         complete |-> expected_set \subseteq found_ids]

\* a call validate_boxes(boxes, expected_ids); t_box holds expected_ids
ValidateBoxes ==
    /\ t_box # None
    /\ t_out = None
    /\ t_out' = validate_boxes(boxes, t_box.expected_ids)
    /\ UNCHANGED <<boxes, sort_by_category, cl_vars, r_vars, rwl_vars, eh,
                   cl2_vars, ep_vars, t_box, t_width>>

\* ---------------------------------------------------------------- _draw_box
\* content_y is kept in tenths of a page-space unit (0.7 line_height is 11.2
\* units)
DrawScale == 10

\* how far drawn text reaches below its baseline: no less than the descent
\* of Helvetica at 4.5 pt and of Courier at 4 pt (0.33 mm at most)
Descent == 4

\* the top edges y at which the box is drawn
DrawTops == {page_top, 100 * mm}

\* content_y before the first content line
FirstBaseline(y) ==
    DrawScale * (y - header_height - box_padding) - 7 * line_height

\* mutant: a blank line advances content_y by a whole line_height
DrawBoxLineBlankFullLine ==
    /\ t_box # None
    /\ t_out # None
    /\ t_out.i < Len(t_box.content)
    /\ LET line == t_box.content[t_out.i + 1]
       IN  IF IsFence(line)
           THEN t_out' = [t_out EXCEPT !.i = t_out.i + 1,
                                       !.in_code_block = ~ t_out.in_code_block]
           ELSE IF IsBlank(line)
           THEN t_out' = [t_out EXCEPT !.i = t_out.i + 1,
                                       !.content_y = t_out.content_y - DrawScale * line_height]
           ELSE t_out' = [t_out EXCEPT
                            !.i = t_out.i + 1,
                            !.texts = Append(t_out.texts, t_out.content_y),
                            !.content_y = t_out.content_y
                                          - DrawScale * line_height]
    /\ UNCHANGED <<boxes, sort_by_category, cl_vars, r_vars, rwl_vars, eh,
                   cl2_vars, ep_vars, t_box, t_width>>

\* one iteration of "for line in box.content.split('\n')" of _draw_box;
\* t_out holds y, the height calculated on entry, and the locals (the number
\* of lines handled, content_y, in_code_block) with the baselines content_y
\* of the drawString calls made so far (a code line, the marker and text of a
\* bullet or numbered item, and a plain line are each drawn on one baseline,
\* unwrapped)
DrawBoxLine ==
    /\ t_box # None
    /\ t_out # None
    /\ t_out.i < Len(t_box.content)
    /\ LET line == t_box.content[t_out.i + 1]
       IN  IF IsFence(line)
           THEN t_out' = [t_out EXCEPT !.i = t_out.i + 1,
                                       !.in_code_block = ~ t_out.in_code_block]
           ELSE IF IsBlank(line)
           THEN t_out' = [t_out EXCEPT !.i = t_out.i + 1,
                                       !.content_y = t_out.content_y - (DrawScale * 6 * mm) \div 10]
           ELSE t_out' = [t_out EXCEPT
                            !.i = t_out.i + 1,
                            !.texts = Append(t_out.texts, t_out.content_y),
                            !.content_y = t_out.content_y
                                          - DrawScale * line_height]
    /\ UNCHANGED <<boxes, sort_by_category, cl_vars, r_vars, rwl_vars, eh,
                   cl2_vars, ep_vars, t_box, t_width>>

\* ---------------------------------------------------------- specification
vars == <<boxes, sort_by_category, cl_vars, r_vars, rwl_vars, eh, cl2_vars, ep_vars, t_vars>>

RECURSIVE SeqsUpTo(_, _)
SeqsUpTo(S, n) ==
    IF n = 0 THEN {<<>>}
    ELSE LET shorter == SeqsUpTo(S, n - 1)
         IN  shorter \cup {Append(s, e) : s \in shorter, e \in S}

\* Newly constructed renderers: no method has run yet.
Fresh ==
    /\ cl_pc = "idle"
    /\ cl_boxes = <<>>
    /\ cl_i = 0
    /\ placed = <<>>
    /\ current_page = 0
    /\ layout_result = <<>>
    /\ r_pc = "idle"
    /\ r_boxes = <<>>
    /\ r_i = 0
    /\ r_placed = <<>>
    /\ r_page = 0
    /\ r_drawn = <<>>
    /\ rwl_pc = "idle"
    /\ rwl_layout = <<>>
    /\ rwl_drawn = <<>>
    /\ eh = None
    /\ cl2_pc = "idle"
    /\ cl2_boxes = <<>>
    /\ cl2_i = 0
    /\ placed2 = <<>>
    /\ current_page2 = 0
    /\ layout_result2 = <<>>
    /\ response = [ep \in EntryPoints |-> None]

\* no text function is called
NoCall == t_box = None /\ t_width = 0 /\ t_out = None

\* no request reaches the renderer
NoRequest ==
    /\ ai_output = "text"
    /\ boxes = <<>>
    /\ boxes2 = <<>>
    /\ sort_by_category = TRUE

\* The state before any request runs, for a box list drawn from inputs.
InitRequest(inputs) ==
    /\ ai_output = "text"
    /\ boxes \in inputs
    /\ boxes2 = <<>>
    /\ NoCall
    /\ sort_by_category \in BOOLEAN
    /\ Fresh

\* The entry points call the renderer with a non-empty parsed box list.
Init == InitRequest(SeqsUpTo(RequestIds, MaxBoxes) \ {<<>>})

Next ==
    \/ CalculateLayoutStart
    \/ CalculateLayoutStep
    \/ CalculateLayoutReturn
    \/ RenderStart
    \/ RenderStep
    \/ RenderSave

Spec == Init /\ [][Next]_vars

\* the editor's preview: /calculate-layout, then /estimate-height queries
NextEstimate ==
    \/ CalculateLayoutStart
    \/ CalculateLayoutStep
    \/ CalculateLayoutReturn
    \/ EstimateHeight

SpecEstimate == Init /\ [][NextEstimate]_vars

\* the editor's final render: /calculate-layout, then /generate-with-layout
NextEditor ==
    \/ CalculateLayoutStart
    \/ CalculateLayoutStep
    \/ CalculateLayoutReturn
    \/ RenderWithLayout

SpecEditor == Init /\ [][NextEditor]_vars

\* two /calculate-layout requests handled concurrently, each on its own
\* renderer; the second request carries the same box list as the first, or
\* the same boxes in the opposite order
InitConcurrent ==
    /\ ai_output = "text"
    /\ boxes \in SeqsUpTo(RequestIds, MaxBoxes) \ {<<>>}
    /\ boxes2 \in {boxes, Reverse(boxes)}
    /\ NoCall
    /\ sort_by_category \in BOOLEAN
    /\ Fresh

NextConcurrent ==
    \/ CalculateLayoutStart
    \/ CalculateLayoutStep
    \/ CalculateLayoutReturn
    \/ CalculateLayoutStart2
    \/ CalculateLayoutStep2
    \/ CalculateLayoutReturn2

SpecConcurrent == InitConcurrent /\ [][NextConcurrent]_vars

\* the entry points on any request text, texts without a box included; they
\* call the renderer with sort_by_category left at its default
InitEntry ==
    /\ ai_output \in {"", "text"}
    /\ boxes \in IF ai_output = "" THEN {<<>>} ELSE SeqsUpTo(RequestIds, MaxBoxes)
    /\ boxes2 = <<>>
    /\ NoCall
    /\ sort_by_category = TRUE
    /\ Fresh

NextEntry ==
    \/ Generate
    \/ GenerateFromAiOutput
    \/ CalculateLayout
    \/ GenerateWithLayout
    \/ CalculateLayoutStep
    \/ CalculateLayoutReturn
    \/ RenderStep
    \/ RenderSave

SpecEntry == InitEntry /\ [][NextEntry]_vars

\* parse_ai_output on one block with any id of up to MaxIdLen characters
InitParse ==
    /\ t_box \in {[id |-> id, title |-> 100,
                    content |-> << Line(0, <<Text(80)>>) >>] :
                      id \in SeqsUpTo(IdChars, MaxIdLen) \ {<<>>}}
    /\ t_width = 0
    /\ t_out = None
    /\ NoRequest
    /\ Fresh

NextParse == ParseAiOutput

SpecParse == InitParse /\ [][NextParse]_vars

\* _estimate_content_height on any content of up to MaxLines lines, at its
\* loop entry
InitHeight ==
    /\ t_box \in {[id |-> <<Chr_A, Chr_0 + 1>>, title |-> 100, content |-> c] :
                      c \in SeqsUpTo(SomeLines, MaxLines) \ {<<>>}}
    /\ t_width \in SomeWidths
    /\ t_out = [i |-> 0, total_height |-> 0, in_code_block |-> FALSE]
    /\ NoRequest
    /\ Fresh

NextHeight == EstimateContentHeightLine

SpecHeight == InitHeight /\ [][NextHeight]_vars

\* render and calculate_layout on box lists in which two different boxes may
\* have the same id
InitTies == InitRequest(SeqsUpTo(TieIds, MaxBoxes) \ {<<>>})

SpecTies == InitTies /\ [][Next]_vars

\* _calculate_box_width on any box of up to MaxLines content lines, after
\* its check of the title width
InitWidth ==
    /\ t_box \in {[id |-> <<Chr_A, Chr_0 + 1>>, title |-> t, content |-> c] :
                      t \in TitleWidths,
                      c \in SeqsUpTo(WidthLines, MaxLines) \ {<<>>}}
    /\ t_width = 0
    /\ t_out = [i |-> 0, max_width |-> Max(0, t_box.title + 3 * mm),
                returned |-> FALSE, width |-> 0]
    /\ NoRequest
    /\ Fresh

NextWidth ==
    \/ CalculateBoxWidthLine
    \/ CalculateBoxWidthReturn

SpecWidth == InitWidth /\ [][NextWidth]_vars

\* the sizing of any box of up to MaxLines content lines
InitSize ==
    /\ t_box \in {[id |-> <<Chr_A, Chr_0 + 1>>, title |-> t, content |-> c] :
                      t \in TitleWidths,
                      c \in SeqsUpTo(SizeLines, MaxLines) \ {<<>>}}
    /\ t_width = 0
    /\ t_out = None
    /\ NoRequest
    /\ Fresh

NextSize == SizeBox

SpecSize == InitSize /\ [][NextSize]_vars

\* _wrap_text on any text of up to MaxWords words (the text "" included), at
\* its loop entry
InitWrap ==
    /\ t_box \in {[id |-> <<Chr_A, Chr_0 + 1>>, title |-> 100,
                    content |-> << Line(0, [i \in DOMAIN ws |-> Text(ws[i])]) >>] :
                      ws \in SeqsUpTo(WordWidths, MaxWords)}
    /\ t_width \in WrapWidths
    /\ t_out = [i |-> 0, current_line |-> <<>>, lines |-> <<>>,
                returned |-> FALSE, result |-> <<>>]
    /\ NoRequest
    /\ Fresh

NextWrap ==
    \/ WrapTextWord
    \/ WrapTextReturn

SpecWrap == InitWrap /\ [][NextWrap]_vars

\* validate_boxes on any list of up to MaxBoxes parsed boxes and any list of
\* up to MaxBoxes expected ids (either may be empty or hold an id twice)
InitValidate ==
    /\ ai_output = "text"
    /\ boxes \in SeqsUpTo(ValidateBoxIds, MaxBoxes)
    /\ boxes2 = <<>>
    /\ sort_by_category = TRUE
    /\ t_box \in {[expected_ids |-> e] : e \in SeqsUpTo(ExpectedIds, MaxBoxes)}
    /\ t_width = 0
    /\ t_out = None
    /\ Fresh

NextValidate == ValidateBoxes

SpecValidate == InitValidate /\ [][NextValidate]_vars

\* render and calculate_layout on request boxes, D1 and D2
InitGap == InitRequest(SeqsUpTo(GapIds, MaxBoxes) \ {<<>>})

SpecGap == InitGap /\ [][Next]_vars

\* _draw_box on any box of up to MaxLines content lines, after its height is
\* calculated and its header drawn
InitDraw ==
    /\ t_box \in {[id |-> <<Chr_A, Chr_0 + 1>>, title |-> 100, content |-> c] :
                      c \in SeqsUpTo(SomeLines, MaxLines) \ {<<>>}}
    /\ t_width \in SomeWidths
    /\ \E y \in DrawTops :
          t_out = [y |-> y, height |-> estimate_box_height(t_box, t_width),
                   i |-> 0, content_y |-> FirstBaseline(y),
                   in_code_block |-> FALSE, texts |-> <<>>]
    /\ NoRequest
    /\ Fresh

NextDraw == DrawBoxLine

SpecDraw == InitDraw /\ [][NextDraw]_vars

\* render and calculate_layout on twenty half-page-wide boxes of equal height
InitTwenty == InitRequest({TwentyBoxes(0), TwentyBoxes(1)})

SpecTwenty == InitTwenty /\ [][Next]_vars

\* ------------------------------------------------------------------ claims
Last(s) == s[Len(s)]
AsRect(t) == [x |-> t[1], y |-> t[2], w |-> t[3], h |-> t[4]]
RenderRects == [i \in DOMAIN r_placed |-> AsRect(r_placed[i])]

\* rectangles p and q (top-left anchor, y upward) are at least gx apart
\* horizontally or at least gy apart vertically
Apart(p, q, gx, gy) ==
    \/ p.x + p.w + gx <= q.x
    \/ q.x + q.w + gx <= p.x
    \/ p.y - p.h - gy >= q.y
    \/ q.y - q.h - gy >= p.y

PairwiseApart(pl, gx, gy) ==
    \A i, j \in DOMAIN pl : i # j => Apart(pl[i], pl[j], gx, gy)

\* C1 (as stated): any two boxes placed on the same page, by calculate_layout
\* or by render, have rectangles that do not overlap once expanded by
\* column_gap (they are column_gap apart horizontally or vertically).
C1_GapExpandedNoOverlap ==
    /\ PairwiseApart(placed, column_gap, column_gap)
    /\ PairwiseApart(RenderRects, column_gap, column_gap)

\* C1 (amended): any two boxes placed on the same page have rectangles that
\* do not overlap once expanded by column_gap horizontally: they are
\* column_gap apart horizontally, or vertically disjoint (possibly touching).
C1_HorizontalGapNoOverlap ==
    /\ PairwiseApart(placed, column_gap, 0)
    /\ PairwiseApart(RenderRects, column_gap, 0)

\* three boxes on one page in both paths, two of them stacked and touching
C1_Witness ==
    /\ Len(placed) >= 3
    /\ Len(r_placed) >= 3
    /\ \E i, j \in DOMAIN placed :
          /\ placed[j].y = placed[i].y - placed[i].h
          /\ placed[j].x = placed[i].x

InsideMargins(p) ==
    /\ margin <= p.x
    /\ p.x + p.w <= page_width - margin
    /\ p.y - p.h >= margin

\* C2: every box the packer places, whatever its estimated height, has
\* margin <= x, x + width <= page_width - margin and y - height >= margin.
C2_PlacedInsideMargins ==
    /\ \A i \in DOMAIN placed : InsideMargins(placed[i])
    /\ \A i \in DOMAIN RenderRects : InsideMargins(RenderRects[i])

\* C3: render and calculate_layout place the i-th box on the same page, at
\* the same page-space (x, y), with the same (width, height).
C3_RenderMatchesLayout ==
    \A i \in DOMAIN r_drawn \cap DOMAIN layout_result :
        LET d == r_drawn[i]
            e == layout_result[i]
        IN  /\ e.id = d.id
            /\ e.page = d.page
            /\ e.x = ToEditorX(d.x)
            /\ e.y = ToEditorY(d.y, d.page)
            /\ e.width = ToEditorX(d.width)
            /\ e.height = ToEditorH(d.height)

\* both paths have finished a list of three boxes that needed a second page
C3_Witness ==
    /\ r_pc = "done"
    /\ cl_pc = "done"
    /\ Len(r_drawn) >= 3
    /\ Len(layout_result) >= 3
    /\ r_page >= 1
    /\ \E i \in DOMAIN r_drawn : r_drawn[i].x > margin

\* C4: the inverse mapping of render_with_layout, applied to the layout
\* entry calculate_layout produces for a box, recovers the page index and
\* the page-space x, y and width the packer assigned to the box.
C4_RoundTrip ==
    [][(cl_pc = "loop" /\ cl_i' = cl_i + 1) =>
          LET e == Last(layout_result')
              p == Last(placed')
          IN  /\ PageNum(e.y) = current_page'
              /\ ToPdfX(e.x) = p.x
              /\ ToPdfY(e.y, PageNum(e.y)) = p.y
              /\ ToPdfX(e.width) = p.w]_vars

\* render_with_layout has drawn, from the unedited layout, boxes that the
\* packer put on a second page
C4_Witness ==
    /\ cl_pc = "done"
    /\ current_page >= 1
    /\ Len(placed) >= 2
    /\ rwl_pc = "done"
    /\ rwl_layout = layout_result
    /\ Len(rwl_drawn) = Len(boxes)

\* C5: the height /estimate-height returns for a box's content at the box's
\* display-space width equals the display-space height calculate_layout
\* reports for the box, for every content, empty content included.
C5_EstimateMatchesLayout ==
    eh # None =>
        \A i \in DOMAIN layout_result :
            (cl_boxes[i] = eh.box /\ layout_result[i].width = eh.width)
                => eh.estimated_height = layout_result[i].height

\* C6: a box that cannot fit on an empty page is reported as an error, it is
\* not placed: no placed box is taller than the usable page height or wider
\* than the usable page width.
C6_OversizeBoxNotPlaced ==
    \A i \in DOMAIN placed :
        /\ placed[i].h <= page_top - page_bottom
        /\ placed[i].w <= page_right - margin

\* C7: render_with_layout draws every box that has a layout entry at the
\* inverse-mapped x, y, width and height of that entry.
C7_DrawnWithSuppliedGeometry ==
    \A i \in DOMAIN rwl_drawn :
        LET d == rwl_drawn[i]
            e == Lookup(rwl_layout, d.id)
        IN  /\ d.x = ToPdfX(e.x)
            /\ d.y = ToPdfY(e.y, PageNum(e.y))
            /\ d.width = ToPdfX(e.width)
            /\ d.height = RoundDiv(e.height,
                              EDITOR_PAGE_HEIGHT * (DisplayDen \div page_height))

\* C8: render_with_layout rejects or clamps a layout entry whose geometry
\* lies outside the page: no box is drawn with a horizontal extent outside
\* [margin, page_width - margin] or with its top above page_height - margin.
C8_DrawnInsidePrintableArea ==
    \A i \in DOMAIN rwl_drawn :
        /\ margin <= rwl_drawn[i].x
        /\ rwl_drawn[i].x + rwl_drawn[i].width <= page_width - margin
        /\ rwl_drawn[i].y <= page_height - margin

\* the candidate (X, Y) pairs of the current page that pass the
\* bottom-margin, right-margin and overlap checks for a box of size (w, h)
ViablePairs(w, h, pl) ==
    LET Ys == {page_top} \cup {pl[i].y - pl[i].h : i \in DOMAIN pl}
        Xs == {margin} \cup {pl[i].x + pl[i].w + column_gap : i \in DOMAIN pl}
    IN  {v \in Xs \X Ys :
            /\ v[2] - h >= page_bottom
            /\ v[1] + w <= page_right
            /\ \A i \in DOMAIN pl :
                  Apart([x |-> v[1], y |-> v[2], w |-> w, h |-> h], pl[i],
                        column_gap, 0)}

\* C9: when some candidate pair is viable, the packer places the box at the
\* viable pair with the topmost Y and, among those, the leftmost X.
C9_TopmostThenLeftmost ==
    [][(cl_pc = "loop" /\ cl_i' = cl_i + 1) =>
          LET b == cl_boxes[cl_i + 1]
              V == ViablePairs(Sized[b].w, Sized[b].h, placed)
              p == Last(placed')
          IN  V # {} =>
                 /\ <<p.x, p.y>> \in V
                 /\ \A v \in V : v[2] < p.y \/ (v[2] = p.y /\ v[1] >= p.x)]_vars

\* a box sits below the top row and right of the left margin
C9_Witness ==
    /\ Len(placed) >= 3
    /\ \E i \in DOMAIN placed :
          placed[i].y < page_top /\ placed[i].x > margin

\* C10: a packer step starts a new page exactly when no candidate pair is
\* viable; it then advances the page index by one, clears the placed boxes
\* and places the box at (margin, page_top); otherwise the page index and the
\* boxes already placed stay.  Page indices never decrease along the layout.
C10_NewPageOnlyWhenNoneViable ==
    /\ [][(cl_pc = "loop" /\ cl_i' = cl_i + 1) =>
            LET b == cl_boxes[cl_i + 1]
                V == ViablePairs(Sized[b].w, Sized[b].h, placed)
            IN  IF V = {}
                THEN /\ current_page' = current_page + 1
                     /\ Len(placed') = 1
                     /\ placed'[1].x = margin /\ placed'[1].y = page_top
                     /\ Last(layout_result').page = current_page + 1
                ELSE /\ current_page' = current_page
                     /\ Len(placed') = Len(placed) + 1
                     /\ SubSeq(placed', 1, Len(placed)) = placed
                     /\ Last(layout_result').page = current_page]_vars
    /\ [][(r_pc = "loop" /\ r_i' = r_i + 1) =>
            LET b == r_boxes[r_i + 1]
                V == ViablePairs(Sized[b].w, Sized[b].h, RenderRects)
            IN  IF V = {}
                THEN /\ r_page' = r_page + 1
                     /\ Len(r_placed') = 1
                     /\ r_placed'[1][1] = margin /\ r_placed'[1][2] = page_top
                     /\ Last(r_drawn').page = r_page + 1
                ELSE /\ r_page' = r_page
                     /\ Len(r_placed') = Len(r_placed) + 1
                     /\ SubSeq(r_placed', 1, Len(r_placed)) = r_placed
                     /\ Last(r_drawn').page = r_page]_vars
    /\ [](\A i, j \in DOMAIN layout_result :
             i < j => layout_result[i].page <= layout_result[j].page)
    /\ [](\A i, j \in DOMAIN r_drawn :
             i < j => r_drawn[i].page <= r_drawn[j].page)

\* both paths started a new page and then placed another box on it
C10_Witness ==
    /\ current_page >= 1
    /\ Len(placed) >= 2
    /\ r_page >= 1
    /\ Len(r_placed) >= 2

\* C11: twenty boxes of width exactly half the usable page width and of equal
\* height, laid out in category-then-id order, are packed two per row (the
\* boxes 2k-1 and 2k share a row, the first of them at the left margin)
\* until the page height is exhausted, and the first box of the second page
\* is anchored at the top margin line.
C11_TwoPerRowThenSecondPage ==
    /\ \A i \in DOMAIN layout_result :
          i % 2 = 0 =>
             /\ layout_result[i - 1].x = ToEditorX(margin)
             /\ layout_result[i].x > layout_result[i - 1].x
             /\ layout_result[i].y = layout_result[i - 1].y
             /\ layout_result[i].page = layout_result[i - 1].page
    /\ \A i \in DOMAIN layout_result :
          (i > 1 /\ layout_result[i].page = 1 /\ layout_result[i - 1].page = 0)
             => /\ layout_result[i].x = ToEditorX(margin)
                /\ layout_result[i].y = ToEditorY(page_top, 1)

C13_EmptyListRejected ==
    /\ [](boxes = <<>> =>
            /\ cl_pc = "idle" /\ r_pc = "idle" /\ rwl_pc = "idle"
            /\ layout_result = <<>> /\ r_drawn = <<>> /\ rwl_drawn = <<>>)
    /\ [][boxes = <<>> =>
            \E ep \in EntryPoints :
               /\ response[ep] = None
               /\ response'[ep] \in {NoAiOutput, NoValidBoxes, NoBoxesFound}]_vars

\* a non-empty text without any box: all four entry points have answered
C13_Witness ==
    /\ ai_output # ""
    /\ boxes = <<>>
    /\ \A ep \in EntryPoints : response[ep] # None

\* C14 (as stated): a box whose id does not match [A-Z][0-9]+ is still
\* returned by parse_ai_output, after a warning, and its derived category is
\* the first character of its id.
C14_CategoryIsFirstCharacter ==
    (t_out # None /\ ~ StrictId(t_box.id)) =>
        /\ Len(t_out.boxes) = 1
        /\ t_out.boxes[1].id = t_box.id
        /\ t_out.warnings = <<t_box.id>>
        /\ t_out.boxes[1].category = t_box.id[1]

\* C14 (amended): a box whose id does not match [A-Z][0-9]+ is still
\* returned by parse_ai_output, after a warning; its derived category is
\* the first character of its id when that is an uppercase letter A-Z, and
\* the letter A otherwise.
C14_CategoryIsLeadingUppercaseOrA ==
    (t_out # None /\ ~ StrictId(t_box.id)) =>
        /\ Len(t_out.boxes) = 1
        /\ t_out.boxes[1].id = t_box.id
        /\ t_out.warnings = <<t_box.id>>
        /\ \/ /\ t_box.id[1] \in Chr_A..Chr_Z
              /\ t_out.boxes[1].category = t_box.id[1]
           \/ /\ t_box.id[1] \notin Chr_A..Chr_Z
              /\ t_out.boxes[1].category = Chr_A

\* parsed, with a warning: a box whose id starts with the lower-case letter c
C14_Witness ==
    /\ t_out # None
    /\ ~ StrictId(t_box.id)
    /\ t_out.warnings # <<>>
    /\ t_box.id[1] = 99

\* the whole line, marker included, fits the width left by the padding, the
\* indent and the widest prefix
FitsOneLine(line, available_width) ==
    stringWidth(line.words) + Indent(line) + 4 * mm + box_padding * 2
        <= available_width

\* the wrap width of a line: available_width - padding * 2 - indent - prefix
WrapWidth(line, available_width) ==
    available_width - box_padding * 2 - Indent(line)
    - (IF IsBullet(line) THEN 3 * mm ELSE IF IsNumbered(line) THEN 4 * mm ELSE 0)

\* C15: for a content of two bullet lines, one blank line and one plain
\* line, at a width where every item fits on one wrapped line, the estimated
\* content height is 2 x line_height + the blank increment + 1 x line_height;
\* in general every blank line adds the fixed blank increment, which is less
\* than line_height, a fence line adds nothing, and every other line adds
\* its wrapped line count x line_height (one line when it fits).
C15_HeightOfLines ==
    /\ [](( /\ t_out.i = 4
            /\ Len(t_box.content) = 4
            /\ IsBullet(t_box.content[1]) /\ IsBullet(t_box.content[2])
            /\ IsBlank(t_box.content[3])
            /\ ~ IsBlank(t_box.content[4]) /\ ~ IsFence(t_box.content[4])
            /\ ~ IsBullet(t_box.content[4]) /\ ~ IsNumbered(t_box.content[4])
            /\ \A i \in {1, 2, 4} : FitsOneLine(t_box.content[i], t_width) )
          => t_out.total_height = 2 * line_height + blank_height + 1 * line_height)
    /\ [][t_out'.i = t_out.i + 1 =>
            LET line == t_box.content[t_out'.i]
                added == t_out'.total_height - t_out.total_height
            IN  IF IsFence(line) THEN added = 0
                ELSE IF IsBlank(line)
                THEN added = blank_height /\ added < line_height
                ELSE /\ added = Len(wrap_text(line.words, WrapWidth(line, t_width)))
                                    * line_height
                     /\ FitsOneLine(line, t_width) => added = line_height]_vars

\* the estimate of "* one", "* one", "", "three" is complete: 5.6 mm
C15_Witness ==
    /\ t_out.i = 4
    /\ t_box.content = << Line(0, <<Bullet, Text(60)>>), Line(0, <<Bullet, Text(60)>>),
                          Line(0, <<>>), Line(0, <<Text(90)>>) >>
    /\ t_out.total_height = (56 * mm) \div 10

\* C16: the (width, height) calculate_layout computes for a box is the same
\* wherever the box stands in the list and whatever was placed before it: a
\* box has the same size at any two positions of one run and in two runs
\* that take the boxes in different orders.
C16_SizeIndependentOfContext ==
    /\ \A i, j \in DOMAIN layout_result :
          cl_boxes[i] = cl_boxes[j] =>
             /\ layout_result[i].width = layout_result[j].width
             /\ layout_result[i].height = layout_result[j].height
    /\ \A i, j \in DOMAIN layout_result2 :
          cl2_boxes[i] = cl2_boxes[j] =>
             /\ layout_result2[i].width = layout_result2[j].width
             /\ layout_result2[i].height = layout_result2[j].height
    /\ \A i \in DOMAIN layout_result, j \in DOMAIN layout_result2 :
          cl_boxes[i] = cl2_boxes[j] =>
             /\ layout_result[i].width = layout_result2[j].width
             /\ layout_result[i].height = layout_result2[j].height

\* two runs took three boxes in opposite orders and placed some box at
\* different positions
C16_Witness ==
    /\ cl_pc = "done"
    /\ cl2_pc = "done"
    /\ Len(cl_boxes) >= 3
    /\ cl2_boxes = Reverse(cl_boxes)
    /\ \E i \in DOMAIN layout_result, j \in DOMAIN layout_result2 :
          /\ cl_boxes[i] = cl2_boxes[j]
          /\ i # j
          /\ layout_result[i].y # layout_result2[j].y
          /\ layout_result[i].x # layout_result2[j].x

\* the number of entries of a sequence of records whose id is id
CountId(entries, id) == Cardinality({i \in DOMAIN entries : entries[i].id = id})

\* every input box has one layout entry of its own
EveryBoxPlacedOnce ==
    /\ Len(layout_result) = Len(boxes)
    /\ \A k \in DOMAIN boxes :
          CountId(layout_result, Pool[boxes[k]].id)
             = Cardinality({i \in DOMAIN boxes : Pool[boxes[i]].id = Pool[boxes[k]].id})

\* C17: when calculate_layout has returned, every input box has been placed
\* exactly once (one entry per input box, none dropped or duplicated) and
\* the layout uses at most as many pages as there are boxes.
C17_PlacedOnceWithinBoxCountPages ==
    cl_pc = "done" =>
        /\ EveryBoxPlacedOnce
        /\ current_page + 1 <= Len(boxes)

\* the layout entries of a calculate_layout call that runs undisturbed, from
\* box i of bs on
RECURSIVE LayoutFrom(_, _, _, _)
LayoutFrom(bs, i, pl, page) ==
    IF i > Len(bs) THEN <<>>
    ELSE LET step == LayoutStep(bs[i], pl, page)
         IN  <<step.entry>> \o LayoutFrom(bs, i + 1, step.placed, step.current_page)

LayoutAlone(bs) ==
    LayoutFrom(IF sort_by_category THEN SortBoxes(bs) ELSE bs, 1, <<>>, 0)

\* C18: of two /calculate-layout requests handled concurrently, each on its
\* own renderer, each produces under every interleaving the layout it would
\* produce alone: what a request has returned so far is a prefix of that
\* layout, and all of it once the request is done.
C18_ResultAsAlone ==
    /\ layout_result = SubSeq(LayoutAlone(boxes), 1, Len(layout_result))
    /\ layout_result2 = SubSeq(LayoutAlone(boxes2), 1, Len(layout_result2))
    /\ cl_pc = "done" => layout_result = LayoutAlone(boxes)
    /\ cl2_pc = "done" => layout_result2 = LayoutAlone(boxes2)

\* both requests are in their loops at once, on different box orders, each
\* with boxes placed and boxes still to place, one of them on a later page
C18_Witness ==
    /\ cl_pc = "loop" /\ cl_i >= 1 /\ cl_i < Len(cl_boxes)
    /\ cl2_pc = "loop" /\ cl2_i >= 2 /\ cl2_i < Len(cl2_boxes)
    /\ cl_boxes # cl2_boxes
    /\ current_page # current_page2

\* bs is in ascending (category, id) order
Ascending(bs) ==
    \A i, j \in DOMAIN bs :
        i < j =>
           LET a == Pool[bs[i]].id
               b == Pool[bs[j]].id
           IN  \/ category(a) < category(b)
               \/ category(a) = category(b) /\ (a = b \/ StrLess(a, b))

\* the boxes of bs whose id is id, in the order of bs
WithId(bs, id) == SelectSeq(bs, LAMBDA b : Pool[b].id = id)

\* sorted is bs in ascending (category, id) order, ties in the order of bs
StableSorted(sorted, bs) ==
    /\ Len(sorted) = Len(bs)
    /\ Ascending(sorted)
    /\ \A k \in DOMAIN bs :
          WithId(sorted, Pool[bs[k]].id) = WithId(bs, Pool[bs[k]].id)

\* C19: with sort_by_category (the default) calculate_layout and render
\* take the boxes in ascending (category, id) order, boxes of equal key in
\* input order, and without it in input order; the boxes are placed, and
\* the layout entries returned, in the order taken.
C19_PlacedInSortedOrder ==
    /\ cl_pc # "idle" =>
          /\ IF sort_by_category THEN StableSorted(cl_boxes, boxes)
                                  ELSE cl_boxes = boxes
          /\ \A i \in DOMAIN layout_result :
                /\ layout_result[i].id = Pool[cl_boxes[i]].id
                /\ layout_result[i].width = ToEditorX(Sized[cl_boxes[i]].w)
                /\ layout_result[i].height = ToEditorH(Sized[cl_boxes[i]].h)
    /\ r_pc # "idle" =>
          /\ IF sort_by_category THEN StableSorted(r_boxes, boxes)
                                  ELSE r_boxes = boxes
          /\ \A i \in DOMAIN r_drawn :
                /\ r_drawn[i].id = Pool[r_boxes[i]].id
                /\ r_drawn[i].width = Sized[r_boxes[i]].w
                /\ r_drawn[i].height = Sized[r_boxes[i]].h

\* a sorted layout of three boxes is complete; the input was not in order,
\* and two different boxes of it have the same id
C19_Witness ==
    /\ sort_by_category
    /\ cl_pc = "done"
    /\ r_pc = "done"
    /\ Len(boxes) >= 3
    /\ cl_boxes # boxes
    /\ \E i, j \in DOMAIN boxes :
          /\ i < j
          /\ boxes[i] > boxes[j]
          /\ Pool[boxes[i]].id = Pool[boxes[j]].id

\* the largest required width among the title and the content lines that
\* are neither blank nor code fences
RequiredWidth(box) ==
    LET needs == {box.title + 3 * mm} \cup
                 {LineWidth(box.content[i]) :
                     i \in {k \in DOMAIN box.content :
                               /\ ~ IsBlank(box.content[k])
                               /\ ~ IsFence(box.content[k])}}
    IN  CHOOSE m \in needs : \A n \in needs : n <= m

\* v clamped into [lo, hi]
Clamp(v, lo, hi) == IF v < lo THEN lo ELSE IF v > hi THEN hi ELSE v

\* C20 (as stated): the width computed for a box is the maximum of the
\* required widths of the title and of every non-blank, non-fence content
\* line, clamped into [min width floor, half-page ceiling]; a box of that
\* width anchored at the left margin ends at or before the right margin.
C20_WidthIsClampedMaximum ==
    (t_out # None /\ t_out.returned) =>
        /\ t_out.width = Clamp(RequiredWidth(t_box), 25 * mm,
                                (page_width - 2 * margin) \div 2)
        /\ margin + t_out.width <= page_width - margin

\* C20 (amended): the width computed for a box is the maximum of the
\* required widths of the title and of every non-blank, non-fence content
\* line, plus 2 mm, clamped into [25 mm, (page_width - 2 * margin) / 2]; a
\* box of that width anchored at the left margin ends at or before the
\* right margin.
C20_WidthIsClampedMaximumPlusSlack ==
    (t_out # None /\ t_out.returned) =>
        /\ t_out.width = Clamp(RequiredWidth(t_box) + 2 * mm, 25 * mm,
                                (page_width - 2 * margin) \div 2)
        /\ t_out.width = calculate_box_width(t_box)
        /\ margin + t_out.width <= page_width - margin

\* a width strictly between floor and ceiling was returned for a box whose
\* widest line is not its first, with a blank line and a fence among them
C20_Witness ==
    /\ t_out # None
    /\ t_out.returned
    /\ t_out.width > 25 * mm
    /\ t_out.width < (page_width - 2 * margin) \div 2
    /\ Len(t_box.content) >= 3
    /\ LineWidth(t_box.content[1]) < RequiredWidth(t_box)
    /\ \E i \in DOMAIN t_box.content : IsBlank(t_box.content[i])
    /\ \E i \in DOMAIN t_box.content : IsFence(t_box.content[i])

\* the height of a box none of whose content lines wraps
RECURSIVE UnwrappedHeight(_)
UnwrappedHeight(content) ==
    IF content = <<>> THEN 0
    ELSE (IF IsFence(Head(content)) THEN 0
          ELSE IF IsBlank(Head(content)) THEN blank_height
          ELSE line_height)
         + UnwrappedHeight(Tail(content))

\* C21: when the width computed for a box is not cut by the half-page
\* ceiling, the height estimated at that width is the height of the content
\* with every bullet, numbered and plain line on exactly one line.
C21_NoWrapAtComputedWidth ==
    (t_out # None
       /\ RequiredWidth(t_box) + 2 * mm <= (page_width - 2 * margin) \div 2) =>
        t_out.height
           = header_height + UnwrappedHeight(t_box.content) + box_padding * 2

\* C22: for a bullet line and for a numbered line the height estimator
\* reserves the prefix width and measures the text without the marker (as
\* the minimum-width estimator does): the line adds the wrapped line count
\* of the words after the marker, at the wrap width, x line_height.
C22_MarkerExcludedFromMeasuredText ==
    [][t_out'.i = t_out.i + 1 =>
          LET line == t_box.content[t_out'.i]
              added == t_out'.total_height - t_out.total_height
          IN  (IsBullet(line) \/ IsNumbered(line)) =>
                 added = Len(wrap_text(Tail(line.words), WrapWidth(line, t_width)))
                            * line_height]_vars

\* C23: a fence line toggles in_code_block and adds no height; while
\* in_code_block is true a line that is not blank is measured as a code
\* line, with indent and prefix width both zero, whatever leading whitespace
\* or bullet/number marker it has: it adds its wrapped line count at
\* available_width - padding * 2, x line_height.
C23_CodeLinesWithoutIndentAndPrefix ==
    [][t_out'.i = t_out.i + 1 =>
          LET line == t_box.content[t_out'.i]
              added == t_out'.total_height - t_out.total_height
          IN  IF IsFence(line)
              THEN /\ added = 0
                   /\ t_out'.in_code_block = ~ t_out.in_code_block
              ELSE /\ t_out'.in_code_block = t_out.in_code_block
                   /\ (t_out.in_code_block /\ ~ IsBlank(line)) =>
                         added = Len(wrap_text(line.words,
                                               t_width - box_padding * 2))
                                    * line_height]_vars

\* the words of a list of lines, in order
RECURSIVE Flatten(_)
Flatten(lines) ==
    IF lines = <<>> THEN <<>> ELSE Head(lines) \o Flatten(Tail(lines))

\* C24: the lines _wrap_text returns hold the input words in order, none
\* lost or split; every line of two or more words measures at most
\* max_width; a word wider than max_width has a line to itself; the first
\* word of a line would not have fitted at the end of the line before it;
\* and there is always at least one line.
C24_GreedyWrap ==
    (t_out # None /\ t_out.returned) =>
        LET lines == t_out.result
            words == t_box.content[1].words
        IN  /\ Len(lines) >= 1
            /\ Flatten(lines) = words
            /\ \A k \in DOMAIN lines :
                  /\ Len(lines[k]) >= 2 => stringWidth(lines[k]) <= t_width
                  /\ (\E j \in DOMAIN lines[k] : lines[k][j].w > t_width)
                        => Len(lines[k]) = 1
                  /\ k > 1 => stringWidth(Append(lines[k - 1], lines[k][1])) > t_width
            /\ lines = wrap_text(words, t_width)

\* returned: three lines or more, one of two words that fill max_width
\* exactly, and one holding a word wider than max_width
C24_Witness ==
    /\ t_out # None
    /\ t_out.returned
    /\ Len(t_out.result) >= 3
    /\ \E k \in DOMAIN t_out.result :
          Len(t_out.result[k]) = 2 /\ stringWidth(t_out.result[k]) = t_width
    /\ \E k \in DOMAIN t_out.result :
          Len(t_out.result[k]) = 1 /\ t_out.result[k][1].w > t_width

\* C25: validate_boxes splits the ids exactly: an id is missing when it is
\* expected and no box has it, extra when a box has it and it is not
\* expected, valid when both; the three sets are pairwise disjoint, their
\* union is every id found or expected, and complete holds exactly when
\* nothing is missing.
C25_ValidatePartitions ==
    (t_out # None) =>
        LET found(x) == \E i \in DOMAIN boxes : Pool[boxes[i]].id = x
            expected(x) == \E i \in DOMAIN t_box.expected_ids :
                              t_box.expected_ids[i] = x
            all == {Pool[h].id : h \in ValidateBoxIds} \cup ExpectedIds
        IN  /\ \A x \in all :
                  /\ x \in t_out.missing <=> (expected(x) /\ ~ found(x))
                  /\ x \in t_out.extra <=> (found(x) /\ ~ expected(x))
                  /\ x \in t_out.valid <=> (found(x) /\ expected(x))
            /\ t_out.missing \cap t_out.extra = {}
            /\ t_out.missing \cap t_out.valid = {}
            /\ t_out.extra \cap t_out.valid = {}
            /\ t_out.missing \cup t_out.extra \cup t_out.valid
                  = {x \in all : found(x) \/ expected(x)}
            /\ t_out.complete <=> (t_out.missing = {})

\* validated: two boxes share an id, nothing is missing and one id is extra
C25_Witness ==
    /\ t_out # None
    /\ t_box.expected_ids # <<>>
    /\ \E i, j \in DOMAIN boxes : i # j /\ Pool[boxes[i]].id = Pool[boxes[j]].id
    /\ t_out.missing = {}
    /\ t_out.extra # {}
    /\ t_out.valid # {}
    /\ t_out.complete

\* the open vertical extents (y - h, y) of p and q overlap
VerticalOverlap(p, q) == p.y - p.h < q.y /\ q.y - q.h < p.y

\* p and q are at least g apart horizontally
HorizontallyApart(p, q, g) == p.x + p.w + g <= q.x \/ q.x + q.w + g <= p.x

SeparatedOrStacked(p, q) ==
    /\ VerticalOverlap(p, q) => HorizontallyApart(p, q, column_gap)
    /\ ~ VerticalOverlap(p, q) \/ HorizontallyApart(p, q, 0)

\* every box render has drawn, on every page, as a rectangle with its page
DrawnRects ==
    [i \in DOMAIN r_drawn |->
        [page |-> r_drawn[i].page, x |-> r_drawn[i].x, y |-> r_drawn[i].y,
         w |-> r_drawn[i].width, h |-> r_drawn[i].height]]

\* C26: two boxes on one page whose open vertical extents overlap are at
\* least column_gap apart horizontally (boxes stacked one under the other may
\* touch), and the interiors of two rectangles on one page never intersect;
\* for every page render has drawn and for the page calculate_layout fills.
C26_SideBySideGapStackedTouch ==
    /\ \A i, j \in DOMAIN DrawnRects :
          (i # j /\ DrawnRects[i].page = DrawnRects[j].page)
             => SeparatedOrStacked(DrawnRects[i], DrawnRects[j])
    /\ \A i, j \in DOMAIN placed :
          i # j => SeparatedOrStacked(placed[i], placed[j])

\* render has drawn, on one page, two boxes side by side exactly column_gap
\* apart and two boxes stacked and touching
C26_Witness ==
    /\ r_pc = "done"
    /\ \E i, j \in DOMAIN DrawnRects :
          /\ DrawnRects[i].page = DrawnRects[j].page
          /\ VerticalOverlap(DrawnRects[i], DrawnRects[j])
          /\ DrawnRects[i].x + DrawnRects[i].w + column_gap = DrawnRects[j].x
    /\ \E i, j \in DOMAIN DrawnRects :
          /\ DrawnRects[i].page = DrawnRects[j].page
          /\ ~ HorizontallyApart(DrawnRects[i], DrawnRects[j], 0)
          /\ DrawnRects[j].y = DrawnRects[i].y - DrawnRects[i].h

\* C27: the packer's pages are contiguous from page 0 and none is empty: the
\* first box placed is on page 0 at (margin, page_top), and every page up to
\* the last one used holds a box; in calculate_layout and in render.
C27_PagesContiguousFromZero ==
    /\ layout_result # <<>> =>
          /\ layout_result[1].page = 0
          /\ layout_result[1].x = ToEditorX(margin)
          /\ layout_result[1].y = ToEditorY(page_top, 0)
          /\ \A p \in 0..current_page :
                \E i \in DOMAIN layout_result : layout_result[i].page = p
    /\ r_drawn # <<>> =>
          /\ r_drawn[1].page = 0
          /\ r_drawn[1].x = margin
          /\ r_drawn[1].y = page_top
          /\ \A p \in 0..r_page :
                \E i \in DOMAIN r_drawn : r_drawn[i].page = p

\* the display page index floor(y / 794) of the layout entry a drawn box used
DisplayPage(d) == PageNum(Lookup(rwl_layout, d.id).y)

\* C28: render_with_layout draws two boxes on the same output page exactly
\* when the display page indices of their layout entries are equal, and a
\* box of a lower display page index is on an earlier output page; for every
\* layout, with negative y or skipped page indices.
C28_OutputPagesFollowDisplayPages ==
    \A i, j \in DOMAIN rwl_drawn :
        /\ rwl_drawn[i].page = rwl_drawn[j].page
              <=> DisplayPage(rwl_drawn[i]) = DisplayPage(rwl_drawn[j])
        /\ DisplayPage(rwl_drawn[i]) < DisplayPage(rwl_drawn[j])
              => rwl_drawn[i].page < rwl_drawn[j].page

\* C29: when render_with_layout is done it has drawn every box passed to it
\* exactly once, whatever the layout array holds (an id missing, no entry at
\* all, an id twice).
C29_EveryBoxDrawnOnce ==
    rwl_pc = "done" =>
        /\ Len(rwl_drawn) = Len(boxes)
        /\ \A k \in DOMAIN boxes :
              CountId(rwl_drawn, Pool[boxes[k]].id)
                 = Cardinality({i \in DOMAIN boxes :
                                   Pool[boxes[i]].id = Pool[boxes[k]].id})

\* C30: drawing in _draw_box consumes no more vertical space than the
\* estimate: a blank line lowers content_y by at most the estimator's blank
\* increment, any other line that is not a fence by at most its estimated
\* number of wrapped lines times line_height, the total never exceeds the
\* estimated content height, and no text drawn reaches below the box's
\* bottom edge y - height.
C30_DrawnWithinEstimate ==
    [][t_out'.i = t_out.i + 1 =>
          LET line == t_box.content[t_out'.i]
              advance == t_out.content_y - t_out'.content_y
          IN  /\ IsBlank(line) => advance <= DrawScale * blank_height
              /\ (~ IsBlank(line) /\ ~ IsFence(line)) =>
                    /\ advance <= DrawScale * LineHeight(line, t_width)
                    /\ t_out'.texts = Append(t_out.texts, t_out.content_y)
              /\ FirstBaseline(t_out.y) - t_out'.content_y
                    <= DrawScale * estimate_content_height(t_box.content, t_width)
              /\ \A k \in DOMAIN t_out'.texts :
                    t_out'.texts[k] - DrawScale * Descent
                       >= DrawScale * (t_out.y - t_out.height)]_vars

\* the whole content is drawn: a blank line, a line the estimate wraps to
\* two lines or more, and text on the last line
C30_Witness ==
    /\ t_out # None
    /\ t_out.i = Len(t_box.content)
    /\ \E k \in DOMAIN t_box.content : IsBlank(t_box.content[k])
    /\ \E k \in DOMAIN t_box.content :
          /\ ~ IsFence(t_box.content[k])
          /\ LineHeight(t_box.content[k], t_width) >= 2 * line_height
    /\ LET last == t_box.content[Len(t_box.content)]
       IN  ~ IsBlank(last) /\ ~ IsFence(last)
    /\ FirstBaseline(t_out.y) - t_out.content_y
          < DrawScale * estimate_content_height(t_box.content, t_width)

====
